---- MODULE Spec2Model ----
(***************************************************************************)
(* Model of src/index.ts: an HTTP blob store.  Keys are resolved onto      *)
(* paths beneath BASE_DIR (resolvePath); PUT streams a request body to     *)
(* disk, POST writes a buffered body, GET sends a file, DELETE unlinks it. *)
(*                                                                         *)
(* Strings are sequences of one-character strings, so that startsWith,     *)
(* slice, join and path.resolve are computed character by character.       *)
(***************************************************************************)
EXTENDS Integers, Sequences, FiniteSets, TLC

(***************************************************************************)
(* Bounds of the model.                                                    *)
(***************************************************************************)
\* longest raw-string key given to resolvePath in SpecResolve
MaxKeyLen == 6
\* most segments of an array key given to resolvePath in SpecResolve
MaxSegs == 2
\* longest request body, in bytes
MaxBody == 2
\* number of requests the server handles at the same time
NReq == 2
\* number of requests the server receives in all
MaxStarts == 2

(***************************************************************************)
(* Strings and POSIX path functions (node's path module).                  *)
(***************************************************************************)
\* path.sep on POSIX
Sep == "/"

\* the characters keys are written with
Alphabet == {"/", ".", "u", "a", "w"}

\* String.prototype.startsWith
StartsWith(s, prefix) ==
    /\ Len(prefix) =< Len(s)
    /\ SubSeq(s, 1, Len(prefix)) = prefix

\* String.prototype.slice(1)
Slice1(s) == SubSeq(s, 2, Len(s))

\* Array.prototype.join(sep) on an array of strings
RECURSIVE JoinWith(_, _)
JoinWith(arr, sep) ==
    IF Len(arr) = 0 THEN << >>
    ELSE IF Len(arr) = 1 THEN arr[1]
    ELSE arr[1] \o <<sep>> \o JoinWith(Tail(arr), sep)

\* the segments of a path string: s.split('/')
RECURSIVE SplitSep(_, _, _)
SplitSep(s, cur, acc) ==
    IF Len(s) = 0 THEN Append(acc, cur)
    ELSE IF Head(s) = Sep THEN SplitSep(Tail(s), << >>, Append(acc, cur))
    ELSE SplitSep(Tail(s), Append(cur, Head(s)), acc)

\* normalizeString of node's path module on an absolute path: empty and "."
\* segments are dropped, ".." removes the segment before it (none at "/")
RECURSIVE NormalizeSegs(_, _)
NormalizeSegs(segs, out) ==
    IF Len(segs) = 0 THEN out
    ELSE LET s == Head(segs) IN
         IF s = << >> \/ s = <<".">> THEN NormalizeSegs(Tail(segs), out)
         ELSE IF s = <<".", ".">>
              THEN NormalizeSegs(Tail(segs),
                       IF Len(out) = 0 THEN out ELSE SubSeq(out, 1, Len(out) - 1))
              ELSE NormalizeSegs(Tail(segs), Append(out, s))

\* the absolute path string of a sequence of segments ("/" for none)
AbsPath(segs) == IF Len(segs) = 0 THEN <<Sep>> ELSE <<Sep>> \o JoinWith(segs, Sep)

\* path.resolve(base, p) for an absolute base: an absolute p replaces the
\* base, an empty p is skipped, and the result is normalized
PathResolve(base, p) ==
    IF Len(p) = 0 THEN AbsPath(NormalizeSegs(SplitSep(base, << >>, << >>), << >>))
    ELSE IF Head(p) = Sep THEN AbsPath(NormalizeSegs(SplitSep(p, << >>, << >>), << >>))
    ELSE AbsPath(NormalizeSegs(SplitSep(base \o <<Sep>> \o p, << >>, << >>), << >>))

\* path.dirname of a normalized absolute path
PathDirname(p) ==
    LET segs == NormalizeSegs(SplitSep(p, << >>, << >>), << >>) IN
    IF Len(segs) = 0 THEN <<Sep>> ELSE AbsPath(SubSeq(segs, 1, Len(segs) - 1))

\* process.cwd()
Cwd == <<"/", "w">>

\* const BASE_DIR = path.resolve(process.cwd(), 'uploads'); the directory
\* name is abbreviated to "u"
BASE_DIR == PathResolve(Cwd, <<"u">>)

(***************************************************************************)
(* Keys: req.params.path is a raw string or an array of segments.          *)
(***************************************************************************)
StrKey(s) == [kind |-> "str", val |-> s]
ArrKey(a) == [kind |-> "arr", val |-> a]

\* every key taken as truthy (mutant)
TruthyAlways(k) == TRUE

\* JavaScript truthiness of a key: only the empty string is falsy
Truthy(k) == ~(k.kind = "str" /\ Len(k.val) = 0)

Thrown(msg) == [ok |-> FALSE, path |-> << >>, err |-> msg]
Returned(p) == [ok |-> TRUE, path |-> p, err |-> ""]

\* the sandbox test of resolvePath, without the separator (mutant)
InsideBaseNoSep(t) == StartsWith(t, BASE_DIR)

\* no sandbox test (mutant)
InsideBaseAny(t) == TRUE

\* target.startsWith(BASE_DIR + path.sep) || target === BASE_DIR
InsideBase(t) == StartsWith(t, BASE_DIR \o <<Sep>>) \/ t = BASE_DIR

\* function resolvePath(filePath: string | string[])
resolvePath(filePath) ==
    IF ~Truthy(filePath) THEN Thrown("Missing path")
    ELSE LET joined == IF filePath.kind = "arr" THEN JoinWith(filePath.val, Sep)
                       ELSE filePath.val
             stripped == IF StartsWith(joined, <<Sep>>) THEN Slice1(joined) ELSE joined
             t == PathResolve(BASE_DIR, stripped)
         IN IF ~InsideBase(t) THEN Thrown("Invalid path") ELSE Returned(t)

\* function resolvePath(filePath: string), the first definition: an array has
\* no startsWith method and the call throws a TypeError
resolvePathStr(filePath) ==
    IF filePath.kind = "arr" THEN Thrown("filePath.startsWith is not a function")
    ELSE LET stripped == IF StartsWith(filePath.val, <<Sep>>) THEN Slice1(filePath.val)
                         ELSE filePath.val
             t == PathResolve(BASE_DIR, stripped)
         IN IF ~InsideBase(t) THEN Thrown("Invalid path") ELSE Returned(t)

(***************************************************************************)
(* The file system: a node for every path the requests can name.           *)
(***************************************************************************)
SegA == <<"a">>
SegB == <<"b">>
SegC == <<"c">>
SegS == <<"s">>
\* a segment that names a dotfile
SegHidden == <<".", "a">>
SegDot == <<".">>
SegDotDot == <<".", ".">>

\* the keys of the requests: the empty key, a one-segment key, a dotfile
\* key, a nested key whose first segment is the one-segment key, the root,
\* and a traversal
ServerKeys ==
    { StrKey(<< >>),
      ArrKey(<<SegA>>),
      ArrKey(<<SegHidden>>),
      ArrKey(<<SegA, SegB, SegC>>),
      ArrKey(<<SegDot>>),
      ArrKey(<<SegA, SegDotDot, SegDotDot, SegS>>) }

PathA == BASE_DIR \o <<Sep>> \o SegA
PathHidden == BASE_DIR \o <<Sep>> \o SegHidden
PathAB == PathA \o <<Sep>> \o SegB
PathABC == PathAB \o <<Sep>> \o SegC
\* where the traversal keys point: a sibling of BASE_DIR
PathS == Cwd \o <<Sep>> \o SegS

FsPaths == { <<Sep>>, Cwd, BASE_DIR, PathA, PathHidden, PathAB, PathABC, PathS }

\* the target of a request that resolved none
NoPath == << >>

\* resolvePath, path.dirname and the ancestors of the paths of the requests,
\* computed once
ResolvedKey == [k \in ServerKeys |-> resolvePath(k)]
DirnameOf == [p \in FsPaths |-> PathDirname(p)]

\* containsDotFile of the send module, which res.sendFile hands the path to:
\* some part of the path is longer than one character and starts with a dot
ContainsDotFile(p) ==
    LET parts == SplitSep(p, << >>, << >>) IN
    \E i \in 1..Len(parts) : Len(parts[i]) > 1 /\ parts[i][1] = "."

DotFileOf == [p \in FsPaths |-> ContainsDotFile(p)]

NoNode == [kind |-> "none", data |-> << >>]
DirNode == [kind |-> "dir", data |-> << >>]
FileNode(d) == [kind |-> "file", data |-> d]

\* a blob that an upload of an earlier run of the server stored
OldBlob == [i \in 1..MaxBody |-> 90 + i]

\* fs.mkdirSync(BASE_DIR, { recursive: true }) at startup: BASE_DIR exists,
\* with what earlier runs left in it: nothing, a blob at the one-segment
\* key, at the dotfile key, or at the nested key
EmptyFs ==
    [p \in FsPaths |-> IF p \in {<<Sep>>, Cwd, BASE_DIR} THEN DirNode ELSE NoNode]

InitFs ==
    { EmptyFs,
      [EmptyFs EXCEPT ![PathA] = FileNode(OldBlob)],
      [EmptyFs EXCEPT ![PathHidden] = FileNode(OldBlob)],
      [EmptyFs EXCEPT ![PathA] = DirNode, ![PathAB] = DirNode,
                      ![PathABC] = FileNode(OldBlob)] }

\* p and the directories above it
Ancestors(p) == { q \in FsPaths : q = <<Sep>> \/ q = p \/ StartsWith(p, q \o <<Sep>>) }

AncestorsOf == [p \in FsPaths |-> Ancestors(p)]

\* mkdir(p, { recursive: true }) succeeds unless a component is a file
MkdirOk(f, p) == \A q \in AncestorsOf[p] : f[q].kind # "file"

\* mkdir(p) without recursive: only the last directory is made (mutant)
MkdirFlat(f, p) == [f EXCEPT ![p] = DirNode]

\* mkdir(p, { recursive: true }) makes every missing directory down to p
MkdirP(f, p) == [q \in FsPaths |-> IF q \in AncestorsOf[p] THEN DirNode ELSE f[q]]

\* open(p, 'w') succeeds when the parent is a directory and p is none
OpenOk(f, p) == f[DirnameOf[p]].kind = "dir" /\ f[p].kind # "dir"

\* open(p, 'w'): O_CREAT | O_TRUNC
OpenTrunc(f, p) == [f EXCEPT ![p] = FileNode(<< >>)]

\* the content after writing bytes at offset pos: a gap is filled with zeros
WriteAt(data, pos, bytes) ==
    LET end == pos + Len(bytes)
        n == IF end > Len(data) THEN end ELSE Len(data)
    IN [i \in 1..n |-> IF i > pos /\ i =< end THEN bytes[i - pos]
                       ELSE IF i =< Len(data) THEN data[i] ELSE 0]

\* unlink(p) succeeds on a file
UnlinkOk(f, p) == f[p].kind = "file"

\* an unlink that removes nothing (mutant)
UnlinkKeep(f, p) == f

\* an unlink that removes every file of the directory of p (mutant)
UnlinkSiblings(f, p) ==
    [q \in FsPaths |-> IF DirnameOf[q] = DirnameOf[p] /\ f[q].kind = "file"
                       THEN NoNode ELSE f[q]]

\* unlink(p) removes the file
Unlink(f, p) == [f EXCEPT ![p] = NoNode]

(***************************************************************************)
(* Requests.                                                               *)
(***************************************************************************)
Slots == 1..NReq

\* the body of the upload of slot r with n bytes: bytes differ by slot and
\* by position
Body(r, n) == [i \in 1..n |-> 10 * r + i]

\* `${filePath}` in a template string: an array is joined with commas
TemplateString(k) == IF k.kind = "arr" THEN JoinWith(k.val, ",") ELSE k.val

\* res.status(400).json({ error })
Resp400(msg) == [status |-> 400, error |-> msg, path |-> StrKey(<< >>), url |-> << >>, data |-> << >>]

\* res.status(201).json({ url: `http://localhost:${PORT}/files/${filePath}`, path: filePath })
\* (url holds what follows "/files/")
Resp201(k) == [status |-> 201, error |-> "", path |-> k, url |-> TemplateString(k), data |-> << >>]

\* res.sendFile(target) sending the file
Resp200(d) == [status |-> 200, error |-> "", path |-> StrKey(<< >>), url |-> << >>, data |-> d]

\* res.sendFile(target) failing: next(err) and the default error handler
Resp404 == [status |-> 404, error |-> "Not Found", path |-> StrKey(<< >>), url |-> << >>, data |-> << >>]

\* next(err) with an error that carries no 4xx status: the default error
\* handler of express answers 500
Resp500 == [status |-> 500, error |-> "Internal Server Error", path |-> StrKey(<< >>), url |-> << >>, data |-> << >>]

\* res.status(204).send()
Resp204 == [status |-> 204, error |-> "", path |-> StrKey(<< >>), url |-> << >>, data |-> << >>]

\* what is known of the blob of a path: nothing, that a successful upload
\* of slot by stored data there (over: in place of an earlier file), or that
\* a delete removed it; the slot is 0 once it holds another request
NoBlob == [st |-> "none", by |-> 0, data |-> << >>, over |-> FALSE]
StoredBlob(r, d, o) == [st |-> "stored", by |-> r, data |-> d, over |-> o]
DeletedBlob == [st |-> "deleted", by |-> 0, data |-> << >>, over |-> FALSE]

\* a request as it arrives at its handler; late says that handleError has
\* been called (and has logged) after the response; pre, solo and expect are
\* history: the node of the target when the handler ran, that no other
\* request has changed the target since, and what was known of its blob
NewReq(m, k, b) ==
    [ pc |-> "idle", method |-> m, key |-> k, body |-> b, file |-> TRUE,
      target |-> NoPath,
      ws |-> "none", destroyed |-> FALSE, link |-> "none", pos |-> 0,
      aborted |-> FALSE, responded |-> FALSE, cleanup |-> FALSE, late |-> FALSE,
      resp |-> << >>, calls |-> {},
      pre |-> NoNode, solo |-> TRUE, expect |-> NoBlob ]

VARIABLES
    fs,     \* the file system: FsPaths -> node
    req,    \* the request of every slot
    started,\* the number of requests received
    blob,   \* history: what is known of the blob of every path
    rkey,   \* SpecResolve: the key given to resolvePath
    rout    \* SpecResolve: what the two definitions of resolvePath did

vars == <<fs, req, started, blob, rkey, rout>>

(***************************************************************************)
(* Helpers of the actions.                                                 *)
(***************************************************************************)
\* the last response of rec is new in this step and has status st
Answers(r, rec, st) ==
    /\ Len(rec.resp) > Len(req[r].resp)
    /\ rec.resp[Len(rec.resp)].status = st

\* the step of slot r: its request becomes rec and the file system f2.  An
\* unlink of path gone detaches the descriptors that other requests hold on
\* it; solo records that no other request changed the target of a request;
\* blob follows the uploads and deletes that succeed, and forgets a path
\* that a request other than the one that stored its blob changes.
Effects(r, rec, f2, gone, begin) ==
    /\ fs' = f2
    /\ req' = [q \in Slots |->
                LET b == IF q = r THEN rec ELSE req[q] IN
                [b EXCEPT
                   !.link = IF @ = "linked" /\ gone # NoPath /\ b.target = gone
                            THEN "orphan" ELSE @,
                   !.solo = @ /\ (q = r \/ b.target = NoPath
                                  \/ f2[b.target] = fs[b.target])]]
    /\ blob' = [p \in FsPaths |->
                 IF p = rec.target /\ rec.method \in {"PUT", "POST"} /\ Answers(r, rec, 201)
                 THEN IF rec.solo THEN StoredBlob(r, rec.body, rec.pre.kind = "file")
                      ELSE NoBlob
                 ELSE IF p = rec.target /\ Answers(r, rec, 204) THEN DeletedBlob
                 ELSE IF f2[p] # fs[p] /\ blob[p].by # r THEN NoBlob
                 ELSE IF begin /\ blob[p].by = r THEN [blob[p] EXCEPT !.by = 0]
                 ELSE blob[p]]
    /\ UNCHANGED <<rkey, rout>>

\* a step of the request of slot r
Commit(r, rec, f2, gone) == Effects(r, rec, f2, gone, FALSE) /\ UNCHANGED started

\* the request rec arrives at slot r and its handler runs
Begin(r, rec) ==
    /\ started < MaxStarts
    /\ \A q \in Slots : q < r => req[q].method # "NONE"
    /\ started' = started + 1
    /\ Effects(r, rec, fs, NoPath, TRUE)

\* the response is written
Respond(rec, resp) == [rec EXCEPT !.resp = Append(@, resp)]

\* a request whose handler and asynchronous work are over
Settled(rec) ==
    \/ rec.pc \in {"idle", "done", "rejected"}
    \/ /\ rec.pc = "stream"
       /\ rec.ws \in {"closed", "failed"}
       /\ ~rec.cleanup
       /\ rec.resp # << >>

\* handleError without the test of responded (mutant)
HandleErrorNoGuard(rec, msg) ==
    Respond([rec EXCEPT !.responded = TRUE,
                        !.destroyed = TRUE,
                        !.ws = IF @ = "open" THEN "closed" ELSE @,
                        !.cleanup = TRUE,
                        !.calls = @ \cup {rec.target}],
            Resp400(msg))

\* handleError: logError(...); if (!responded) { responded = true;
\* writeStream.destroy(); fsPromises.unlink(target).catch(...);
\* res.status(400).json(...) }
\* destroy() closes an open descriptor; an open still pending runs first
HandleError(rec, msg) ==
    IF ~rec.responded
    THEN Respond([rec EXCEPT !.responded = TRUE,
                             !.destroyed = TRUE,
                             !.ws = IF @ = "open" THEN "closed" ELSE @,
                             !.cleanup = TRUE,
                             !.calls = @ \cup {rec.target}],
                 Resp400(msg))
    ELSE [rec EXCEPT !.late = TRUE]

\* resolveAndEnsureFile that only tests existence (mutant)
ResolveAndEnsureExists(f, k) ==
    IF ~Truthy(k) THEN Thrown("Missing path")
    ELSE LET res == ResolvedKey[k] IN
         IF ~res.ok THEN res
         ELSE IF f[res.path].kind = "none" THEN Thrown("Not found")
         ELSE res

\* resolveAndEnsureFile: existsSync(target) and statSync(target).isFile()
ResolveAndEnsureFile(f, k) ==
    IF ~Truthy(k) THEN Thrown("Missing path")
    ELSE LET res == ResolvedKey[k] IN
         IF ~res.ok THEN res
         ELSE IF f[res.path].kind # "file" THEN Thrown("Not found")
         ELSE res

(***************************************************************************)
(* app.put('/files/*path'): the streaming upload.                          *)
(***************************************************************************)
\* the handler up to the call of mkdir
PutStart(r) ==
    /\ Settled(req[r])
    /\ \E k \in ServerKeys, n \in 0..MaxBody :
         LET rec == NewReq("PUT", k, Body(r, n)) IN
         IF ~Truthy(k)
         THEN Begin(r, Respond([rec EXCEPT !.pc = "done"], Resp400("Missing target path")))
         ELSE LET res == ResolvedKey[k] IN
              IF ~res.ok
              THEN Begin(r, Respond([rec EXCEPT !.pc = "done"], Resp400(res.err)))
              ELSE Begin(r, [rec EXCEPT !.pc = "mkdir", !.target = res.path,
                                         !.pre = fs[res.path],
                                         !.calls = {DirnameOf[res.path]}])

\* mkdir settles: .then creates the write stream and the listeners and pipes
\* the request, .catch answers 400
PutMkdir(r) ==
    /\ req[r].pc = "mkdir"
    /\ \E fail \in BOOLEAN :
         LET rec == req[r]
             dir == DirnameOf[rec.target]
         IN IF fail \/ ~MkdirOk(fs, dir)
            THEN Commit(r, Respond([rec EXCEPT !.pc = "done"],
                                   Resp400(IF fail THEN "EACCES" ELSE "ENOTDIR")),
                        fs, NoPath)
            ELSE Commit(r, [rec EXCEPT !.pc = "stream", !.ws = "opening",
                                       !.calls = @ \cup {rec.target}],
                        MkdirP(fs, dir), NoPath)

\* the client disconnects before the 'error' listener exists: the event is
\* not delivered and the request never ends
PutEarlyAbort(r) ==
    /\ req[r].pc = "mkdir"
    /\ ~req[r].aborted
    /\ Len(req[r].body) > 0
    /\ Commit(r, [req[r] EXCEPT !.aborted = TRUE], fs, NoPath)

\* the open of fs.createWriteStream(target, { mode: 0o644 }) runs; a failure
\* is the 'error' event of the write stream
PutOpen(r) ==
    /\ req[r].pc = "stream"
    /\ req[r].ws = "opening"
    /\ \E fail \in BOOLEAN :
         LET rec == req[r] IN
         IF fail \/ ~OpenOk(fs, rec.target)
         THEN Commit(r, HandleError([rec EXCEPT !.ws = "failed"],
                                    IF fail THEN "EACCES" ELSE "EISDIR"),
                     fs, NoPath)
         ELSE Commit(r, [rec EXCEPT !.ws = IF rec.destroyed THEN "closed" ELSE "open",
                                    !.link = "linked"],
                     OpenTrunc(fs, rec.target), NoPath)

\* req.pipe(writeStream): the next byte of the body is written at the
\* position of the descriptor; a failure is the 'error' event of the stream
PutWrite(r) ==
    /\ req[r].pc = "stream"
    /\ req[r].ws = "open"
    /\ ~req[r].aborted
    /\ req[r].pos < Len(req[r].body)
    /\ \E fail \in BOOLEAN :
         LET rec == req[r] IN
         IF fail
         THEN Commit(r, HandleError(rec, "ENOSPC"), fs, NoPath)
         ELSE Commit(r, [rec EXCEPT !.pos = @ + 1],
                     IF rec.link = "linked"
                     THEN [fs EXCEPT ![rec.target] =
                             FileNode(WriteAt(@.data, rec.pos, <<rec.body[rec.pos + 1]>>))]
                     ELSE fs,
                     NoPath)

\* writeStream.on('finish'): the request ended and every byte is written
PutFinish(r) ==
    /\ req[r].pc = "stream"
    /\ req[r].ws = "open"
    /\ ~req[r].aborted
    /\ req[r].pos = Len(req[r].body)
    /\ LET rec == [req[r] EXCEPT !.ws = "finished"] IN
       IF rec.responded
       THEN Commit(r, rec, fs, NoPath)
       ELSE Commit(r, Respond([rec EXCEPT !.responded = TRUE], Resp201(rec.key)), fs, NoPath)

\* the descriptor is closed after 'finish'; a failure is a late 'error'
\* event of the write stream
PutClose(r) ==
    /\ req[r].pc = "stream"
    /\ req[r].ws = "finished"
    /\ \E fail \in BOOLEAN :
         LET rec == [req[r] EXCEPT !.ws = "closed"] IN
         IF fail THEN Commit(r, HandleError(rec, "EIO"), fs, NoPath)
         ELSE Commit(r, rec, fs, NoPath)

\* req.on('error'): the client disconnects before the body is complete
PutReqError(r) ==
    /\ req[r].pc = "stream"
    /\ req[r].ws \in {"opening", "open"}
    /\ ~req[r].aborted
    /\ req[r].pos < Len(req[r].body)
    /\ Commit(r, HandleError([req[r] EXCEPT !.aborted = TRUE], "aborted"), fs, NoPath)

\* the cleanup unlink without its catch, a failure answered like one of the
\* handler (mutant)
PutCleanupSurfaced(r) ==
    /\ req[r].cleanup
    /\ LET rec == [req[r] EXCEPT !.cleanup = FALSE] IN
       IF UnlinkOk(fs, rec.target)
       THEN Commit(r, rec, Unlink(fs, rec.target), rec.target)
       ELSE Commit(r, Respond(rec, Resp400("ENOENT")), fs, NoPath)

\* fsPromises.unlink(target).catch(() => {}) of handleError runs
PutCleanup(r) ==
    /\ req[r].cleanup
    /\ LET rec == [req[r] EXCEPT !.cleanup = FALSE] IN
       IF UnlinkOk(fs, rec.target)
       THEN Commit(r, rec, Unlink(fs, rec.target), rec.target)
       ELSE Commit(r, rec, fs, NoPath)

(***************************************************************************)
(* app.post('/files/*path'): the buffered upload.                          *)
(***************************************************************************)
\* upload.single('file') and the handler up to await mkdir; multer hands a
\* request it rejects (a file part under another field name) to next(err),
\* the handler does not run and the default error handler answers 500
PostStart(r) ==
    /\ Settled(req[r])
    /\ \E k \in ServerKeys, n \in 0..MaxBody, file \in BOOLEAN, rejected \in BOOLEAN :
         LET rec == [NewReq("POST", k, IF file THEN Body(r, n) ELSE << >>)
                       EXCEPT !.file = file] IN
         /\ file \/ n = 0
         /\ rejected => ~file
         /\ IF rejected
            THEN Begin(r, Respond([rec EXCEPT !.pc = "rejected"], Resp500))
            ELSE IF ~Truthy(k)
            THEN Begin(r, Respond([rec EXCEPT !.pc = "done"],
                                   Resp400("Missing target path")))
            ELSE IF ~file
            THEN Begin(r, Respond([rec EXCEPT !.pc = "done"],
                                   Resp400("Missing file field 'file'")))
            ELSE LET res == ResolvedKey[k] IN
                 IF ~res.ok
                 THEN Begin(r, Respond([rec EXCEPT !.pc = "done"], Resp400(res.err)))
                 ELSE Begin(r, [rec EXCEPT !.pc = "pmkdir", !.target = res.path,
                                            !.pre = fs[res.path],
                                            !.calls = {DirnameOf[res.path]}])

\* await fsPromises.mkdir(path.dirname(target), { recursive: true })
PostMkdir(r) ==
    /\ req[r].pc = "pmkdir"
    /\ \E fail \in BOOLEAN :
         LET rec == req[r]
             dir == DirnameOf[rec.target]
         IN IF fail \/ ~MkdirOk(fs, dir)
            THEN Commit(r, Respond([rec EXCEPT !.pc = "done"],
                                   Resp400(IF fail THEN "EACCES" ELSE "ENOTDIR")),
                        fs, NoPath)
            ELSE Commit(r, [rec EXCEPT !.pc = "popen", !.calls = @ \cup {rec.target}],
                        MkdirP(fs, dir), NoPath)

\* fsPromises.writeFile(target, buffer, { mode: 0o644 }) opens the file
PostOpen(r) ==
    /\ req[r].pc = "popen"
    /\ \E fail \in BOOLEAN :
         LET rec == req[r] IN
         IF fail \/ ~OpenOk(fs, rec.target)
         THEN Commit(r, Respond([rec EXCEPT !.pc = "done"],
                                Resp400(IF fail THEN "EACCES" ELSE "EISDIR")),
                     fs, NoPath)
         ELSE Commit(r, [rec EXCEPT !.pc = "pwrite", !.link = "linked"],
                     OpenTrunc(fs, rec.target), NoPath)

\* writeFile writes the buffer and closes; a failed write leaves what open
\* made, and the handler answers 400 from its catch
PostWrite(r) ==
    /\ req[r].pc = "pwrite"
    /\ \E fail \in BOOLEAN :
         LET rec == [req[r] EXCEPT !.pc = "done"] IN
         /\ fail => Len(rec.body) > 0
         /\ IF fail
            THEN Commit(r, Respond(rec, Resp400("ENOSPC")), fs, NoPath)
            ELSE Commit(r, Respond([rec EXCEPT !.pos = Len(rec.body)], Resp201(rec.key)),
                        IF rec.link = "linked"
                        THEN [fs EXCEPT ![rec.target] =
                                FileNode(WriteAt(@.data, 0, rec.body))]
                        ELSE fs,
                        NoPath)

(***************************************************************************)
(* app.get('/files/*path') and app.delete('/files/*path').                 *)
(***************************************************************************)
\* the handler: resolveAndEnsureFile, then res.sendFile(target) is started
GetStart(r) ==
    /\ Settled(req[r])
    /\ \E k \in ServerKeys :
         LET res == ResolveAndEnsureFile(fs, k)
             t == IF Truthy(k) THEN ResolvedKey[k] ELSE Thrown("")
             rec == IF t.ok
                    THEN [NewReq("GET", k, << >>) EXCEPT
                            !.target = t.path, !.calls = {t.path},
                            !.pre = fs[t.path], !.expect = blob[t.path]]
                    ELSE NewReq("GET", k, << >>)
         IN IF ~res.ok
            THEN Begin(r, Respond([rec EXCEPT !.pc = "done"], Resp400(res.err)))
            ELSE Begin(r, [rec EXCEPT !.pc = "send"])

\* res.sendFile(target) without options: send ignores a path with a dotfile
\* part (dotfiles: 'ignore') and a missing file, both go to next(err) and end
\* as 404; otherwise the file is read and sent, and a read that fails (EIO,
\* EMFILE) goes to next(err) as a 500 error
GetSend(r) ==
    /\ req[r].pc = "send"
    /\ \E fail \in BOOLEAN :
         LET rec == [req[r] EXCEPT !.pc = "done"] IN
         IF DotFileOf[rec.target] \/ fs[rec.target].kind # "file"
         THEN Commit(r, Respond(rec, Resp404), fs, NoPath)
         ELSE IF fail
         THEN Commit(r, Respond(rec, Resp500), fs, NoPath)
         ELSE Commit(r, Respond(rec, Resp200(fs[rec.target].data)), fs, NoPath)

\* the handler: resolveAndEnsureFile, then await fsPromises.unlink(target)
DeleteStart(r) ==
    /\ Settled(req[r])
    /\ \E k \in ServerKeys :
         LET res == ResolveAndEnsureFile(fs, k)
             t == IF Truthy(k) THEN ResolvedKey[k] ELSE Thrown("")
             rec == IF t.ok
                    THEN [NewReq("DELETE", k, << >>) EXCEPT
                            !.target = t.path, !.calls = {t.path},
                            !.pre = fs[t.path], !.expect = blob[t.path]]
                    ELSE NewReq("DELETE", k, << >>)
         IN IF ~res.ok
            THEN Begin(r, Respond([rec EXCEPT !.pc = "done"], Resp400(res.err)))
            ELSE Begin(r, [rec EXCEPT !.pc = "unlink"])

\* unlink ran: 204, or 400 from the catch when the file is gone
DeleteUnlink(r) ==
    /\ req[r].pc = "unlink"
    /\ LET rec == [req[r] EXCEPT !.pc = "done"] IN
       IF UnlinkOk(fs, rec.target)
       THEN Commit(r, Respond(rec, Resp204), Unlink(fs, rec.target), rec.target)
       ELSE Commit(r, Respond(rec, Resp400("ENOENT")), fs, NoPath)

(***************************************************************************)
(* The server.                                                             *)
(***************************************************************************)
\* a key no request resolves
NoKey == StrKey(<< >>)

Init ==
    /\ fs \in InitFs
    /\ req = [r \in Slots |-> NewReq("NONE", NoKey, << >>)]
    /\ started = 0
    /\ blob = [p \in FsPaths |-> IF fs[p].kind = "file"
                                  THEN StoredBlob(0, fs[p].data, FALSE) ELSE NoBlob]
    /\ rkey = NoKey
    /\ rout = <<Thrown(""), Thrown("")>>

Next ==
    \E r \in Slots :
        \/ PutStart(r)
        \/ PutMkdir(r)
        \/ PutEarlyAbort(r)
        \/ PutOpen(r)
        \/ PutWrite(r)
        \/ PutFinish(r)
        \/ PutClose(r)
        \/ PutReqError(r)
        \/ PutCleanup(r)
        \/ PostStart(r)
        \/ PostMkdir(r)
        \/ PostOpen(r)
        \/ PostWrite(r)
        \/ GetStart(r)
        \/ GetSend(r)
        \/ DeleteStart(r)
        \/ DeleteUnlink(r)

Spec == Init /\ [][Next]_vars

(***************************************************************************)
(* resolvePath on its own: the handlers call it with every truthy key.     *)
(***************************************************************************)
\* the strings of at most n characters
StringsUpTo(n) == UNION { [1..m -> Alphabet] : m \in 0..n }

\* the segments of an array key; a decoded segment may hold a separator
Segments == StringsUpTo(2)

\* the keys given to resolvePath: raw strings and arrays of segments
ResolverKeys ==
    { StrKey(s) : s \in StringsUpTo(MaxKeyLen) }
    \cup { ArrKey(a) : a \in UNION { [1..m -> Segments] : m \in 0..MaxSegs } }

\* no call of resolvePath yet
NotCalled == Thrown("")

InitResolve ==
    /\ fs = EmptyFs
    /\ req = [r \in Slots |-> NewReq("NONE", NoKey, << >>)]
    /\ started = 0
    /\ blob = [p \in FsPaths |-> NoBlob]
    /\ rkey \in ResolverKeys
    /\ rout = <<NotCalled, NotCalled>>

\* a handler passes `if (!filePath)` and calls resolvePath(filePath); rout
\* holds what the definition of lines 116-136 and the one of lines 16-27 do
ResolveKey ==
    /\ Truthy(rkey)
    /\ rout[1] = NotCalled
    /\ rout' = <<resolvePath(rkey), resolvePathStr(rkey)>>
    /\ UNCHANGED <<fs, req, started, blob, rkey>>

NextResolve == ResolveKey

SpecResolve == InitResolve /\ [][NextResolve]_vars

(***************************************************************************)
(* C1.                                                                     *)
(***************************************************************************)
\* p is an absolute path in canonical form
Canonical(p) ==
    /\ Len(p) > 0
    /\ Head(p) = Sep
    /\ AbsPath(NormalizeSegs(SplitSep(p, << >>, << >>), << >>)) = p

\* p is the Storage Root or has Storage Root + separator as a strict prefix
WithinRoot(p) ==
    \/ p = BASE_DIR
    \/ /\ Len(p) > Len(BASE_DIR) + 1
       /\ \A i \in 1..Len(BASE_DIR) : p[i] = BASE_DIR[i]
       /\ p[Len(BASE_DIR) + 1] = Sep

\* what resolvePath may do: throw 'Invalid path', or return a path within
\* the root
SandboxedResult(out) ==
    \/ ~out.ok /\ out.err = "Invalid path"
    \/ out.ok /\ Canonical(out.path) /\ WithinRoot(out.path)

\* C1: for every key, a raw string or a sequence of segments, resolvePath
\* fails with 'Invalid path' or returns an absolute path that is the Storage
\* Root or lies beneath it.  The definition of lines 116-136 is held to this
\* for both kinds of key, the one of lines 16-27 for the strings it declares.
C1_Sandbox ==
    rout[1] # NotCalled =>
        /\ SandboxedResult(rout[1])
        /\ rkey.kind = "str" => SandboxedResult(rout[2])

\* the sibling key "../ua", whose path only starts with the root's name, and
\* the key "//w/ua", absolute after one separator is stripped, were refused
C1_Witness ==
    /\ rkey \in { StrKey(<<".", ".", "/", "u", "a">>),
                  StrKey(<<"/", "/", "w", "/", "u", "a">>),
                  ArrKey(<< <<".", ".">>, <<"u", "a">> >>) }
    /\ rout[1] = Thrown("Invalid path")

(***************************************************************************)
(* C2.                                                                     *)
(***************************************************************************)
\* the segments of BASE_DIR
BaseSegs == NormalizeSegs(SplitSep(BASE_DIR, << >>, << >>), << >>)

\* the key, followed segment by segment from the root, ends outside the root
EscapesRoot(k) ==
    /\ k.kind = "arr"
    /\ LET segs == NormalizeSegs(BaseSegs \o k.val, << >>) IN
       \/ Len(segs) < Len(BaseSegs)
       \/ SubSeq(segs, 1, Len(BaseSegs)) # BaseSegs

Uploads == {"PUT", "POST"}

\* C2: an upload, a fetch or a delete whose key traverses out of the root
\* (such as a/../../s) is answered 400 'Invalid path' by its handler, makes
\* no file system call, and no file exists outside the Storage Root.
C2_Traversal ==
    /\ \A r \in Slots :
         (req[r].method # "NONE" /\ req[r].file /\ EscapesRoot(req[r].key)) =>
             /\ req[r].pc = "done"
             /\ req[r].resp = <<Resp400("Invalid path")>>
             /\ req[r].calls = {}
             /\ req[r].target = NoPath
    /\ \A p \in FsPaths : ~WithinRoot(p) => fs[p].kind # "file"

\* an upload and a delete with the traversal key were both refused
C2_Witness ==
    \E r, q \in Slots :
        /\ req[r].method = "PUT" /\ EscapesRoot(req[r].key)
        /\ req[q].method = "DELETE" /\ EscapesRoot(req[q].key)
        /\ req[r].resp = <<Resp400("Invalid path")>>
        /\ req[q].resp = <<Resp400("Invalid path")>>

(***************************************************************************)
(* C3.                                                                     *)
(***************************************************************************)
\* the upload of slot r ended in failure after its target was resolved, and
\* its open, destroy and cleanup unlink are all over
FailedUpload(r) ==
    /\ req[r].method \in Uploads
    /\ req[r].target # NoPath
    /\ Settled(req[r])
    /\ req[r].resp # << >>
    /\ req[r].resp[1].status = 400

\* C3 (Invariant I2): after an upload to key K that ended in failure, and
\* that no other request interfered with, the resolved path of K holds no
\* file or the complete file that was there before the attempt, never an
\* empty or truncated one.
C3_NoPartialFile ==
    \A r \in Slots :
        (FailedUpload(r) /\ req[r].solo) =>
            \/ fs[req[r].target].kind # "file"
            \/ fs[req[r].target] = req[r].pre

(***************************************************************************)
(* C4.                                                                     *)
(***************************************************************************)
\* C4: every upload request is answered at most once, whatever the order of
\* the request 'error', the write-stream 'error', the 'finish' event and the
\* mkdir rejection: never a second response, never both 201 and 400.
C4_OneCompletion ==
    \A r \in Slots :
        req[r].method \in Uploads =>
            /\ Len(req[r].resp) =< 1
            /\ ~(\E i, j \in 1..Len(req[r].resp) :
                   req[r].resp[i].status = 201 /\ req[r].resp[j].status = 400)

\* a streaming upload that the client aborted and whose open then failed:
\* two error events, one response
C4_Witness ==
    \E r \in Slots :
        /\ req[r].method = "PUT"
        /\ req[r].aborted
        /\ req[r].ws = "failed"
        /\ req[r].responded
        /\ Len(req[r].resp) = 1
        /\ req[r].resp[1].status = 400

(***************************************************************************)
(* C5.                                                                     *)
(***************************************************************************)
\* the read of slot g began when the blob of its key was known, no other
\* request has changed the path since, and reading the file did not fail
ReadOfKnown(g, st) ==
    /\ req[g].method = "GET"
    /\ req[g].pc = "done"
    /\ req[g].expect.st = st
    /\ req[g].solo
    /\ req[g].resp # <<Resp500>>

\* C5 (round trip): once an upload of B to K has completed successfully and
\* no other request touches K, the path of K holds exactly B, and a read of
\* K that follows is answered 200 with exactly B.
C5_RoundTrip ==
    /\ \A p \in FsPaths : blob[p].st = "stored" => fs[p] = FileNode(blob[p].data)
    /\ \A g \in Slots :
         ReadOfKnown(g, "stored") => req[g].resp = <<Resp200(req[g].expect.data)>>

(***************************************************************************)
(* C6.                                                                     *)
(***************************************************************************)
\* C6 (overwrite): when an upload of B2 to K has completed over a file that
\* held B1 and nothing else touches K, the path holds exactly B2 and a read
\* of K returns exactly B2, also when B2 is shorter than B1.
C6_Overwrite ==
    /\ \A r \in Slots :
         ( /\ req[r].method \in Uploads
           /\ req[r].target # NoPath
           /\ req[r].pre.kind = "file"
           /\ req[r].solo
           /\ req[r].resp # << >>
           /\ req[r].resp[1].status = 201 ) =>
             fs[req[r].target] = FileNode(req[r].body)
    /\ \A g \in Slots :
         (ReadOfKnown(g, "stored") /\ req[g].expect.over) =>
             /\ req[g].resp # << >>
             /\ req[g].resp[1].status = 200
             /\ Len(req[g].resp[1].data) = Len(req[g].expect.data)
             /\ \A i \in 1..Len(req[g].expect.data) :
                    req[g].resp[1].data[i] = req[g].expect.data[i]

(***************************************************************************)
(* C7.                                                                     *)
(***************************************************************************)
\* the streaming upload of slot r was answered 201 and its stream is closed
CompletedUpload(r) ==
    /\ req[r].method = "PUT"
    /\ req[r].target # NoPath
    /\ Settled(req[r])
    /\ req[r].resp # << >>
    /\ req[r].resp[1].status = 201

\* C7 (last writer wins): when two streaming uploads to one key have both
\* completed successfully and no third request names the key, the path holds a file
\* whose content is exactly the body of one of the two, never no file and
\* never a mixture of the two bodies.
C7_LastWriterWins ==
    \A r, q \in Slots :
        ( /\ r # q
          /\ CompletedUpload(r)
          /\ CompletedUpload(q)
          /\ req[r].target = req[q].target
          /\ \A o \in Slots \ {r, q} : req[o].target # req[r].target ) =>
            /\ fs[req[r].target].kind = "file"
            /\ fs[req[r].target].data \in {req[r].body, req[q].body}

(***************************************************************************)
(* C8.                                                                     *)
(***************************************************************************)
NotFound400 == <<Resp400("Not found")>>

\* C8 (delete then read): after a delete of K was answered 204 and with no
\* write to K since, the path of K holds nothing, and a read of K as well as
\* a second delete of K are answered 400 'Not found'.
C8_DeleteThenRead ==
    /\ \A p \in FsPaths : blob[p].st = "deleted" => fs[p] = NoNode
    /\ \A r \in Slots :
         (req[r].method \in {"GET", "DELETE"} /\ req[r].expect.st = "deleted") =>
             /\ req[r].pc = "done"
             /\ req[r].resp = NotFound400

\* a delete was answered 204 and the read that followed 400 'Not found'
C8_Witness ==
    \E r, q \in Slots :
        /\ req[r].method = "DELETE"
        /\ req[r].resp = <<Resp204>>
        /\ req[q].method = "GET"
        /\ req[q].target = req[r].target
        /\ req[q].expect.st = "deleted"
        /\ req[q].resp = NotFound400

(***************************************************************************)
(* C9.                                                                     *)
(***************************************************************************)
\* slot r takes a step of its own (the steps of other slots change only its
\* history)
Acts(r) ==
    \/ req'[r].pc # req[r].pc
    \/ req'[r].resp # req[r].resp
    \/ req'[r].method # req[r].method
    \/ req'[r].key # req[r].key

\* C9: a read or a delete of a key whose resolved path is absent or is not a
\* regular file (a directory, the Storage Root itself) is answered 400 'Not
\* found' and changes nothing in the file system; a read is answered 200 and
\* a delete 204 only in a step that finds a regular file at the path.
C9_NotFound ==
    /\ [](\A r \in Slots :
            ( /\ req[r].method \in {"GET", "DELETE"}
              /\ req[r].target # NoPath
              /\ req[r].pre.kind # "file" ) =>
                /\ req[r].pc = "done"
                /\ req[r].resp = NotFound400)
    /\ [][\A r \in Slots :
            ( /\ Acts(r)
              /\ req'[r].method \in {"GET", "DELETE"}
              /\ req'[r].target # NoPath
              /\ fs[req'[r].target].kind # "file" ) =>
                /\ fs' = fs
                /\ ~(\E i \in 1..Len(req'[r].resp) :
                       req'[r].resp[i].status \in {200, 204})]_vars

\* a delete of the key that resolves to the Storage Root, and a read of a
\* key that resolves to a directory, were answered 400 'Not found'
C9_Witness ==
    \E r, q \in Slots :
        /\ req[r].method = "DELETE"
        /\ req[r].target = BASE_DIR
        /\ req[r].resp = NotFound400
        /\ req[q].method = "GET"
        /\ req[q].target = PathA
        /\ req[q].pre = DirNode
        /\ req[q].resp = NotFound400

(***************************************************************************)
(* C10.                                                                    *)
(***************************************************************************)
\* the delete of slot r removes p and is answered 204
DeleteRemoves(r, p) ==
    /\ req[r].method = "DELETE"
    /\ req[r].pc = "unlink"
    /\ req'[r].resp = <<Resp204>>
    /\ fs'[p] = NoNode

\* the upload of slot r opens p or writes to it
UploadWrites(r, p) ==
    /\ req[r].method \in Uploads
    /\ req'[r].link = "linked"
    /\ req[r].link = "none" \/ req'[r].pos > req[r].pos
    /\ fs'[p].kind = "file"

\* the cleanup unlink of the failed upload of slot r removes p
CleanupRemoves(r, p) ==
    /\ req[r].method = "PUT"
    /\ req[r].cleanup /\ ~req'[r].cleanup
    /\ Len(req[r].resp) = 1 /\ req[r].resp[1].status = 400
    /\ fs'[p] = NoNode

\* C10: a blob that a successful upload stored stays at its path with the
\* same content in every step, except a step in which a delete of its key
\* succeeds, a write of an upload to its key lands on it, or the cleanup of
\* a failed upload to its key unlinks it.
C10_BlobLifecycle ==
    [][\A p \in FsPaths :
         ( /\ blob[p].st = "stored"
           /\ fs[p] = FileNode(blob[p].data)
           /\ fs'[p] # fs[p] ) =>
             \E r \in Slots :
                 /\ req[r].target = p
                 /\ \/ DeleteRemoves(r, p)
                    \/ UploadWrites(r, p)
                    \/ CleanupRemoves(r, p)]_vars

\* the cleanup of a failed upload removed the blob that was at its key
C10_Witness ==
    \E r \in Slots :
        /\ req[r].method = "PUT"
        /\ req[r].pre = FileNode(OldBlob)
        /\ req[r].solo
        /\ req[r].resp # << >> /\ req[r].resp[1].status = 400
        /\ req[r].responded /\ ~req[r].cleanup
        /\ fs[req[r].target] = NoNode

(***************************************************************************)
(* C11.                                                                    *)
(***************************************************************************)
\* the key as the client wrote it after /files/: its segments joined with
\* the separator
KeyString(k) == IF k.kind = "arr" THEN JoinWith(k.val, Sep) ELSE k.val

\* C11: every upload answered 201 echoes the original key as the string
\* path (key a/b/c as "a/b/c") and gives the access URL
\* http://localhost:<PORT>/files/<key>, for keys of one and of several
\* segments.
C11_EchoKey ==
    \A r \in Slots :
        ( /\ req[r].method \in Uploads
          /\ req[r].resp # << >>
          /\ req[r].resp[1].status = 201 ) =>
            /\ req[r].resp[1].path = StrKey(KeyString(req[r].key))
            /\ req[r].resp[1].url = KeyString(req[r].key)

(***************************************************************************)
(* C12.                                                                    *)
(***************************************************************************)
Successes == {200, 201, 204}

\* C12: every response of an upload, a fetch or a delete that is not a
\* success has a 4xx status and carries an error message.
C12_Failures4xx ==
    \A r \in Slots :
        \A i \in 1..Len(req[r].resp) :
            req[r].resp[i].status \notin Successes =>
                /\ req[r].resp[i].status \in 400..499
                /\ req[r].resp[i].error # ""

(***************************************************************************)
(* C13.                                                                    *)
(***************************************************************************)
\* the disk and network events of the streaming upload of slot r that the
\* event loop delivers once they are due: the mkdir, the open, a chunk of the
\* body, 'finish', the close and the cleanup unlink
PutEvent(r) ==
    \/ PutMkdir(r)
    \/ PutOpen(r)
    \/ PutWrite(r)
    \/ PutFinish(r)
    \/ PutClose(r)
    \/ PutCleanup(r)

\* the server under fair scheduling of these events
FairSpec == Spec /\ \A r \in Slots : WF_vars(PutEvent(r))

\* C13: under fair scheduling every streaming upload that has not been
\* answered is eventually answered (201 or 400), also when the client
\* disconnects, when mkdir fails and when the write stream errors.
C13_EventuallyAnswered ==
    \A r \in Slots :
        (req[r].method = "PUT" /\ req[r].resp = << >>) ~>
            (req[r].resp # << >> /\ req[r].resp[1].status \in {201, 400})

(***************************************************************************)
(* C14.                                                                    *)
(***************************************************************************)
\* every directory from the root of the file system down to the parent of p
\* exists in f
ParentsExist(f, p) == \A q \in AncestorsOf[DirnameOf[p]] : f[q] = DirNode

\* the upload of slot r was answered 201
Stored(r) ==
    /\ req[r].method \in Uploads
    /\ req[r].target # NoPath
    /\ req[r].resp # << >>
    /\ req[r].resp[1].status = 201

\* C14 (nested key creation): an upload opens its file only when every
\* intermediate directory of the key exists (for a/b/c: a and a/b beneath
\* the Storage Root), the directories are there once it has opened it, and
\* after its success the blob is at the full nested path.
C14_NestedDirs ==
    /\ [](\A r \in Slots :
            /\ (req[r].method \in Uploads /\ req[r].link # "none") =>
                   ParentsExist(fs, req[r].target)
            /\ (Stored(r) /\ req[r].solo) =>
                   /\ ParentsExist(fs, req[r].target)
                   /\ fs[req[r].target] = FileNode(req[r].body))
    /\ [][\A r \in Slots :
            ( /\ req'[r].method \in Uploads
              /\ req[r].link = "none"
              /\ req'[r].link # "none" ) =>
                ParentsExist(fs, req'[r].target)]_vars

\* in the run that began with no directory a (the blob at the dotfile key
\* is still in place), an upload stored its body at a/b/c beneath the
\* directories a and a/b
C14_Witness ==
    \E r \in Slots :
        /\ fs[PathHidden] = FileNode(OldBlob)
        /\ Stored(r)
        /\ req[r].target = PathABC
        /\ fs[PathA] = DirNode
        /\ fs[PathAB] = DirNode
        /\ fs[PathABC] = FileNode(Body(r, MaxBody))

(***************************************************************************)
(* C15.                                                                    *)
(***************************************************************************)
MissingKey400 == <<Resp400("Missing target path")>>

\* the handler of the upload of slot r ran with an empty or absent key
EmptyKeyUpload(rec) ==
    /\ rec.method \in Uploads
    /\ rec.pc # "rejected"
    /\ Len(rec.key.val) = 0

\* C15: an upload handler that is given an empty or absent key answers 400
\* 'Missing target path' at once: the key is not resolved, no file system
\* call is made, and the step leaves the file system as it was.
C15_MissingKey ==
    /\ [](\A r \in Slots :
            EmptyKeyUpload(req[r]) =>
                /\ req[r].pc = "done"
                /\ req[r].resp = MissingKey400
                /\ req[r].target = NoPath
                /\ req[r].calls = {})
    /\ [][\A r \in Slots :
            (Acts(r) /\ EmptyKeyUpload(req'[r])) => fs' = fs]_vars

\* a streaming and a buffered upload with the empty key were both refused
C15_Witness ==
    \E r, q \in Slots :
        /\ req[r].method = "PUT" /\ Len(req[r].key.val) = 0
        /\ req[q].method = "POST" /\ Len(req[q].key.val) = 0 /\ ~req[q].file
        /\ req[r].resp = MissingKey400
        /\ req[q].resp = MissingKey400

(***************************************************************************)
(* C16.                                                                    *)
(***************************************************************************)
\* the streaming upload of slot r has been completed as a success by the
\* 'finish' handler
Succeeded(rec) ==
    /\ rec.method = "PUT"
    /\ rec.pc = "stream"
    /\ rec.resp # << >>
    /\ rec.resp[1].status = 201

\* C16: once 'finish' has answered 201, an error event that reaches
\* handleError later changes nothing: the stream is not destroyed, no
\* cleanup unlink is started, the response stays the one 201, and the step
\* leaves the file system, and so the stored blob, as it was.
C16_LateErrorNoOp ==
    /\ [](\A r \in Slots :
            Succeeded(req[r]) =>
                /\ req[r].resp = <<Resp201(req[r].key)>>
                /\ ~req[r].destroyed
                /\ ~req[r].cleanup)
    /\ [][\A r \in Slots :
            (Succeeded(req[r]) /\ ~req[r].late /\ req'[r].late) =>
                /\ fs' = fs
                /\ req'[r].resp = req[r].resp
                /\ req'[r].destroyed = req[r].destroyed
                /\ req'[r].cleanup = req[r].cleanup]_vars

\* the write stream reported an error after the 201, and the blob is still
\* at its path
C16_Witness ==
    \E r \in Slots :
        /\ Succeeded(req[r])
        /\ req[r].late
        /\ req[r].ws = "closed"
        /\ Len(req[r].body) = MaxBody
        /\ fs[req[r].target] = FileNode(req[r].body)

(***************************************************************************)
(* C17.                                                                    *)
(***************************************************************************)
\* the messages of the errors that make a streaming upload fail
UploadErrors == {"aborted", "EACCES", "EISDIR", "ENOSPC"}

\* the streaming upload of slot r was failed by handleError
Failed(rec) ==
    /\ rec.method = "PUT"
    /\ rec.pc = "stream"
    /\ rec.responded
    /\ rec.resp # << >>
    /\ rec.resp[1].status = 400

\* C17: the cleanup unlink of a failed upload that fails itself (nothing at
\* the path, or a directory) changes neither the response nor the file
\* system: the client has the one 400 with the message of the error that
\* failed the upload, and no second response follows.
C17_CleanupSwallowed ==
    /\ [](\A r \in Slots :
            Failed(req[r]) =>
                /\ Len(req[r].resp) = 1
                /\ req[r].resp[1].error \in UploadErrors)
    /\ [][\A r \in Slots :
            ( /\ Failed(req[r])
              /\ req[r].cleanup
              /\ ~req'[r].cleanup
              /\ fs[req[r].target].kind # "file" ) =>
                /\ fs' = fs
                /\ req'[r].resp = req[r].resp]_vars

\* the cleanup unlink failed on a directory (the Storage Root, whose open
\* had failed) and on an absent path (a file that was never created)
C17_Witness ==
    \E r, q \in Slots :
        /\ Failed(req[r]) /\ ~req[r].cleanup
        /\ req[r].target = BASE_DIR
        /\ req[r].resp = <<Resp400("EISDIR")>>
        /\ Failed(req[q]) /\ ~req[q].cleanup
        /\ req[q].ws = "failed" /\ req[q].pre = NoNode /\ req[q].solo
        /\ fs[req[q].target] = NoNode
        /\ req[q].resp = <<Resp400("EACCES")>>

(***************************************************************************)
(* C18.                                                                    *)
(***************************************************************************)
\* C18: every path that a request hands to a file system call (mkdir, open
\* and write, stat, read, unlink) is the path its own resolution returned or
\* the parent directory of that path, and is the Storage Root or lies
\* beneath it, also for a key that resolves to the Storage Root itself.
C18_CallsWithinRoot ==
    \A r \in Slots :
        \A p \in req[r].calls :
            /\ req[r].target # NoPath
            /\ p \in {req[r].target, DirnameOf[req[r].target]}
            /\ WithinRoot(p)

(***************************************************************************)
(* C19.                                                                    *)
(***************************************************************************)
\* the complete bodies that successful uploads have stored at p: the blob
\* of an earlier run, the blob that is known to be at p, and the bodies of
\* the uploads to p that have been answered 201
CompleteBodies(p) ==
    {OldBlob}
    \cup { blob[q].data : q \in {x \in FsPaths : x = p /\ blob[x].st = "stored"} }
    \cup { req[q].body : q \in {x \in Slots : Stored(x) /\ req[x].target = p} }

\* C19: a read of K that is answered 200 returns the complete body of an
\* upload to K that completed successfully, never an empty, truncated or
\* partial body, also while an upload to K is in progress or is being
\* cleaned up.
C19_ReadsComplete ==
    [][\A g \in Slots :
         ( /\ req[g].method = "GET"
           /\ req[g].pc = "send"
           /\ req'[g].pc = "done"
           /\ req'[g].resp[1].status = 200 ) =>
             req'[g].resp[1].data \in CompleteBodies(req[g].target)]_vars

(***************************************************************************)
(* C20.                                                                    *)
(***************************************************************************)
\* slot r takes a step of its handler or of its asynchronous work
Stepped(r) ==
    \/ Acts(r)
    \/ req'[r].ws # req[r].ws
    \/ req'[r].pos # req[r].pos
    \/ req'[r].cleanup # req[r].cleanup
    \/ req'[r].aborted # req[r].aborted
    \/ req'[r].late # req[r].late

\* the blob at p, its existence and its content, is the same after the step
BlobUnchanged(p) ==
    (fs[p].kind = "file" \/ fs'[p].kind = "file") => fs'[p] = fs[p]

\* C20 (frame): a step of an upload (its cleanup included), of a read or of
\* a delete on key K leaves every blob at a path other than the resolved
\* path of K as it was, and an upload whose mkdir fails changes no blob at
\* all.
C20_Frame ==
    [][\A r \in Slots :
         Stepped(r) =>
             /\ \A p \in FsPaths \ {req'[r].target} : BlobUnchanged(p)
             /\ (req[r].pc \in {"mkdir", "pmkdir"} /\ req'[r].pc = "done") =>
                    \A p \in FsPaths : BlobUnchanged(p)]_vars

\* the cleanup of a failed upload to a removed the file the upload had
\* created, and the blob at the dotfile key is as it was
C20_Witness ==
    \E r \in Slots :
        /\ Failed(req[r])
        /\ ~req[r].cleanup
        /\ req[r].target = PathA
        /\ req[r].link # "none"
        /\ fs[PathA] = NoNode
        /\ fs[PathHidden] = FileNode(OldBlob)

====
